---- MODULE Spec2Model ----
\* Model of src/app/page.tsx (Home): auth subscription, cart store,
\* product view derivation (filter / sort / slice) and lazy-load reveal.
EXTENDS Integers, Naturals, Sequences, FiniteSets, TLC

VARIABLES
    \* --- auth / cart state (useState hooks of Home) ---
    user,              \* committed Firebase user (uid) or NoUser
    authLoading,       \* committed authLoading
    pendingUser,       \* setUser value queued by the auth callback, not yet rendered
    userEffectPending, \* a commit changed user; the [user] effect has not run yet
    cartItems,         \* committed CartItem[]
    cartCount,         \* committed number
    pendingCart,       \* setCartItems/setCartCount queued by fetchCart, not yet rendered
    server,            \* remote cart store of /api/cart, per uid
    fetches,           \* GET /api/cart requests in flight ([uid, resp])
    posts,             \* POST /api/cart requests in flight ([uid, items, status])
    toasts,            \* toast notifications shown, in order
    route,             \* router.push targets issued
    clicks,            \* number of add-to-cart clicks handled
    authChanges,       \* number of auth emissions handled
    cartOwner,         \* auxiliary: uid whose cart data cartItems was last loaded from / posted to
    lastClick,         \* auxiliary: _id of the product clicked in the last step ("none" after other steps)
    react19,           \* the app runs on React 19: a discrete event's render also applies updates queued outside it
    \* --- catalog / view state ---
    products,          \* committed Product[]
    productsLoading,
    pendingProducts,   \* setProducts/setProductsLoading queued by fetchProducts
    searchTerm,
    sortOption,
    filterJustIn,
    visibleCount,      \* committed visibleCount
    vcUpdates,         \* queued setVisibleCount updates, applied in order at the next render
    viewEffectsPending,\* a commit happened whose passive effects have not run yet
    lastInputs,        \* <<products, searchTerm, sortOption, filterJustIn>> seen by the last effects run
    observer,          \* closure [vc, n] of the registered IntersectionObserver callback
    obsQueue,          \* queued IntersectionObserver entries (closures of their observers)
    curQueued,         \* the registered observer already has an entry queued
    derived            \* output of the derivation pipeline (pipeline spec only)

cartVars == <<user, authLoading, pendingUser, userEffectPending, cartItems, cartCount,
              pendingCart, server, fetches, posts, toasts, route, clicks, authChanges, cartOwner, lastClick, react19>>
viewVars == <<products, productsLoading, pendingProducts, searchTerm, sortOption, filterJustIn,
              visibleCount, vcUpdates, viewEffectsPending, lastInputs, observer, obsQueue,
              curQueued, derived>>
vars == <<cartVars, viewVars>>

\* ------------------------------------------------------------------
\* Strings are sequences of one-character strings.

Digits == {"0","1","2","3","4","5","6","7","8","9"}
DigitVal == [d \in Digits |-> CASE d = "0" -> 0 [] d = "1" -> 1 [] d = "2" -> 2
                                [] d = "3" -> 3 [] d = "4" -> 4 [] d = "5" -> 5
                                [] d = "6" -> 6 [] d = "7" -> 7 [] d = "8" -> 8
                                [] OTHER -> 9]
Letters == {"a","b","A","B"}

\* String.prototype.toLowerCase on the alphabet used
toLowerChar(c) == IF c = "A" THEN "a" ELSE IF c = "B" THEN "b" ELSE c
toLowerCase(s) == [i \in DOMAIN s |-> toLowerChar(s[i])]

\* String.prototype.includes
includes(s, t) ==
    \E k \in 0..(Len(s) - Len(t)) : \A i \in 1..Len(t) : s[k + i] = t[i]

\* s.replace(/[^\d]/g, "")
replaceNonDigits(s) == SelectSeq(s, LAMBDA c : c \in Digits)

\* Number(digitString): decimal value of a digit-only string, 0 for ""
RECURSIVE NumberOfDigits(_)
NumberOfDigits(s) ==
    IF s = <<>> THEN 0
    ELSE NumberOfDigits(SubSeq(s, 1, Len(s) - 1)) * 10 + DigitVal[s[Len(s)]]

\* Variant parsing like parseInt after skipping a prefix: only the first digit run counts
RECURSIVE DropNonDigitPrefix(_)
DropNonDigitPrefix(s) ==
    IF s = <<>> \/ Head(s) \in Digits THEN s ELSE DropNonDigitPrefix(Tail(s))
RECURSIVE LeadingDigits(_)
LeadingDigits(s) ==
    IF s = <<>> \/ Head(s) \notin Digits THEN <<>> ELSE <<Head(s)>> \o LeadingDigits(Tail(s))
priceNumParseInt(price) == NumberOfDigits(LeadingDigits(DropNonDigitPrefix(price)))

\* Number(price.replace(/[^\d]/g, ""))
priceNum(price) == NumberOfDigits(replaceNonDigits(price))

\* items.reduce((acc, item) => acc + item.quantity, 0)
RECURSIVE reduceQuantity(_)
reduceQuantity(items) ==
    IF items = <<>> THEN 0
    ELSE reduceQuantity(SubSeq(items, 1, Len(items) - 1)) + items[Len(items)].quantity

RemoveAt(s, i) == SubSeq(s, 1, i - 1) \o SubSeq(s, i + 1, Len(s))

\* ------------------------------------------------------------------
\* Cart store

NoUser == "none"
Uids == {"u1", "u2"}
MaxClicks == 2
MaxAuth == 2

CartProducts ==
    << [_id |-> "p1", name |-> <<"A","b">>, price |-> <<"R","s"," ","5">>, justIn |-> TRUE],
       [_id |-> "p2", name |-> <<"b">>, price |-> <<"1",",","2">>, justIn |-> FALSE] >>

\* Carts the backend may hold at start (distinct product ids)
ServerCarts ==
    { <<>>, << [productId |-> "p2", name |-> <<"b">>, price |-> 12, quantity |-> 2] >> }

\* Variant that always appends a new line, ignoring an existing item
updatedCartItemsAlwaysAppend(items, product) ==
    Append(items, [productId |-> product._id, name |-> product.name,
                   price |-> priceNum(product.price), quantity |-> 1])

\* handleAddToCart: computation of updatedCartItems (lines 183-206)
updatedCartItems(items, product) ==
    IF \E i \in DOMAIN items : items[i].productId = product._id
    THEN [i \in DOMAIN items |->
            IF items[i].productId = product._id
            THEN [items[i] EXCEPT !.quantity = @ + 1]
            ELSE items[i]]
    ELSE Append(items, [productId |-> product._id, name |-> product.name,
                        price |-> priceNum(product.price), quantity |-> 1])

NoPending == "nopending"
NoPendingCart == [has |-> FALSE, items |-> <<>>, count |-> 0, owner |-> NoUser]
Unanswered == [state |-> "inflight", kind |-> "none", items |-> <<>>]

CartInit ==
    /\ user = NoUser
    /\ authLoading = TRUE
    /\ pendingUser = NoPending
    /\ userEffectPending = FALSE
    /\ cartItems = <<>>
    /\ cartCount = 0
    /\ pendingCart = NoPendingCart
    /\ server \in [Uids -> ServerCarts]
    /\ server["u1"] \in ServerCarts
    /\ server["u2"] = <<>>
    /\ fetches = <<>>
    /\ posts = <<>>
    /\ toasts = <<>>
    /\ route = <<>>
    /\ clicks = 0
    /\ authChanges = 0
    /\ cartOwner = NoUser
    /\ lastClick = "none"
    /\ react19 \in BOOLEAN

\* onAuthStateChanged callback (lines 80-83): setUser / setAuthLoading are
\* queued; Firebase emits only when the signed-in user changes.
AuthStateChanged(u) ==
    LET latest == IF pendingUser = NoPending THEN user ELSE pendingUser IN
    /\ authChanges < MaxAuth
    /\ authChanges = 0 \/ u # latest
    /\ pendingUser' = u
    /\ authChanges' = authChanges + 1
    /\ UNCHANGED <<user, authLoading, userEffectPending, cartItems, cartCount, pendingCart,
                   server, fetches, posts, toasts, route, clicks, cartOwner>>

\* React renders the queued updates of the auth callback and of fetchCart
\* (one render applies every queued update; pending passive effects are
\* flushed before it). Every emitted user is a new object, so the [user]
\* effect re-runs unless null is replaced by null.
CommitRender ==
    /\ ~userEffectPending
    /\ pendingUser # NoPending \/ pendingCart.has
    /\ IF pendingUser # NoPending
       THEN /\ user' = pendingUser
            /\ authLoading' = FALSE
            /\ userEffectPending' = (pendingUser # user \/ pendingUser # NoUser)
       ELSE UNCHANGED <<user, authLoading, userEffectPending>>
    /\ pendingUser' = NoPending
    /\ IF pendingCart.has
       THEN /\ cartItems' = pendingCart.items
            /\ cartCount' = pendingCart.count
            /\ cartOwner' = pendingCart.owner
       ELSE UNCHANGED <<cartItems, cartCount, cartOwner>>
    /\ pendingCart' = NoPendingCart
    /\ UNCHANGED <<server, fetches, posts, toasts, route, clicks, authChanges>>

\* The [user] effect (lines 88-115): with a user, fetchCart starts GET /api/cart
UserEffect ==
    /\ userEffectPending
    /\ userEffectPending' = FALSE
    /\ fetches' = IF user # NoUser THEN Append(fetches, [uid |-> user, resp |-> Unanswered]) ELSE fetches
    /\ UNCHANGED <<user, authLoading, pendingUser, cartItems, cartCount, pendingCart, server,
                   posts, toasts, route, clicks, authChanges, cartOwner>>

\* The backend handles GET /api/cart: the answer carries the stored cart at
\* that moment; it may lack an items array, or the request may fail.
GetAnswered(i, kind) ==
    LET f == fetches[i] IN
    /\ f.resp.state = "inflight"
    /\ fetches' = [fetches EXCEPT ![i].resp = [state |-> "answered", kind |-> kind, items |-> server[f.uid]]]
    /\ UNCHANGED <<user, authLoading, pendingUser, userEffectPending, cartItems, cartCount,
                   pendingCart, server, posts, toasts, route, clicks, authChanges, cartOwner>>

\* Variant that on a response without items forgets to zero the count
FetchCartSettleKeepCount(i) ==
    LET f == fetches[i] IN
    /\ f.resp.state = "answered"
    /\ fetches' = RemoveAt(fetches, i)
    /\ pendingCart' =
          CASE f.resp.kind = "ok" ->
                 [has |-> TRUE, items |-> f.resp.items, count |-> reduceQuantity(f.resp.items), owner |-> f.uid]
            [] f.resp.kind = "malformed" ->
                 [has |-> TRUE, items |-> <<>>, count |-> reduceQuantity(f.resp.items), owner |-> f.uid]
            [] OTHER -> pendingCart
    /\ UNCHANGED <<user, authLoading, pendingUser, userEffectPending, cartItems, cartCount,
                   server, posts, toasts, route, clicks, authChanges, cartOwner>>

\* fetchCart receives the answer (lines 92-111): setCartCount / setCartItems
\* are queued (the items array, or [] without one); an error sets nothing.
FetchCartSettle(i) ==
    LET f == fetches[i] IN
    /\ f.resp.state = "answered"
    /\ fetches' = RemoveAt(fetches, i)
    /\ pendingCart' =
          CASE f.resp.kind = "ok" ->
                 [has |-> TRUE, items |-> f.resp.items, count |-> reduceQuantity(f.resp.items), owner |-> f.uid]
            [] f.resp.kind = "malformed" ->
                 [has |-> TRUE, items |-> <<>>, count |-> 0, owner |-> f.uid]
            [] OTHER -> pendingCart
    /\ UNCHANGED <<user, authLoading, pendingUser, userEffectPending, cartItems, cartCount,
                   server, posts, toasts, route, clicks, authChanges, cartOwner>>

\* Variant that applies the local update before the sign-in check
handleAddToCartLateAuthCheck(product) ==
    LET upd == updatedCartItems(cartItems, product) IN
    /\ clicks < MaxClicks
    /\ clicks' = clicks + 1
    /\ lastClick' = product._id
    /\ cartItems' = upd
    /\ cartCount' = reduceQuantity(upd)
    /\ pendingCart' = NoPendingCart
    /\ IF user = NoUser
       THEN /\ route' = Append(route, "/signin")
            /\ UNCHANGED <<posts, cartOwner>>
       ELSE /\ posts' = Append(posts, [uid |-> user, items |-> upd, status |-> "pending"])
            /\ cartOwner' = user
            /\ UNCHANGED route
    /\ UNCHANGED <<user, authLoading, pendingUser, userEffectPending, server, fetches, toasts,
                   authChanges, react19>>

\* handleAddToCart (lines 182-230) up to the dispatch of the POST. The click
\* handler sees the committed cartItems and user. Without a user it only calls
\* router.push (no state update, no render). With a user its updates render at
\* the end of the click and supersede setCartItems/setCartCount still queued by
\* fetchCart; on React 19 that render also applies the queued
\* setUser/setAuthLoading (pending passive effects are flushed before it).
handleAddToCart(product) ==
    LET upd == updatedCartItems(cartItems, product) IN
    /\ clicks < MaxClicks
    /\ clicks' = clicks + 1
    /\ lastClick' = product._id
    /\ IF user = NoUser
       THEN /\ route' = Append(route, "/signin")
            /\ UNCHANGED <<cartItems, cartCount, pendingCart, posts, cartOwner,
                           user, authLoading, pendingUser, userEffectPending>>
       ELSE /\ cartItems' = upd
            /\ cartCount' = reduceQuantity(upd)
            /\ pendingCart' = NoPendingCart
            /\ posts' = Append(posts, [uid |-> user, items |-> upd, status |-> "pending"])
            /\ cartOwner' = user
            /\ UNCHANGED route
            /\ IF react19 /\ pendingUser # NoPending
               THEN /\ ~userEffectPending
                    /\ user' = pendingUser
                    /\ authLoading' = FALSE
                    /\ userEffectPending' = (pendingUser # user \/ pendingUser # NoUser)
                    /\ pendingUser' = NoPending
               ELSE UNCHANGED <<user, authLoading, pendingUser, userEffectPending>>
    /\ UNCHANGED <<server, fetches, toasts, authChanges, react19>>

\* The backend handles POST /api/cart: it stores the snapshot and answers
\* ok, or answers with a failure (the write may or may not have happened)
PostRespond(i, ok, stored) ==
    LET p == posts[i] IN
    /\ p.status = "pending"
    /\ posts' = [posts EXCEPT ![i].status = IF ok THEN "ok" ELSE "fail"]
    /\ server' = IF ok \/ stored THEN [server EXCEPT ![p.uid] = p.items] ELSE server
    /\ UNCHANGED <<user, authLoading, pendingUser, userEffectPending, cartItems, cartCount,
                   pendingCart, fetches, toasts, route, clicks, authChanges, cartOwner>>

\* Variant that reports success whatever the response
PostSettleAlwaysSuccess(i) ==
    LET p == posts[i] IN
    /\ p.status # "pending"
    /\ posts' = RemoveAt(posts, i)
    /\ toasts' = Append(toasts, "success")
    /\ UNCHANGED <<user, authLoading, pendingUser, userEffectPending, cartItems, cartCount,
                   pendingCart, server, fetches, route, clicks, authChanges, cartOwner>>

\* The awaited POST settles in handleAddToCart (lines 231-253)
PostSettle(i) ==
    LET p == posts[i] IN
    /\ p.status # "pending"
    /\ posts' = RemoveAt(posts, i)
    /\ toasts' = Append(toasts, IF p.status = "ok" THEN "success" ELSE "error")
    /\ UNCHANGED <<user, authLoading, pendingUser, userEffectPending, cartItems, cartCount,
                   pendingCart, server, fetches, route, clicks, authChanges, cartOwner>>

CartNext ==
    \/ \E k \in DOMAIN CartProducts : handleAddToCart(CartProducts[k])
    \/ /\ lastClick' = "none"
       /\ \/ \E u \in Uids \cup {NoUser} : AuthStateChanged(u)
          \/ CommitRender
          \/ UserEffect
          \/ \E i \in DOMAIN fetches, k \in {"ok", "malformed", "error"} : GetAnswered(i, k)
          \/ \E i \in DOMAIN fetches : FetchCartSettle(i)
          \/ \E i \in DOMAIN posts, ok \in BOOLEAN, stored \in BOOLEAN :
                PostRespond(i, ok, stored /\ ~ok)
          \/ \E i \in DOMAIN posts : PostSettle(i)

NoPendingProducts == [kind |-> "none", data |-> <<>>]
InitialInputs == <<<<>>, <<>>, "name-asc", "">>

ViewFrozen ==
    /\ products = <<>>
    /\ productsLoading = TRUE
    /\ pendingProducts = NoPendingProducts
    /\ searchTerm = <<>>
    /\ sortOption = "name-asc"
    /\ filterJustIn = ""
    /\ visibleCount = 10
    /\ vcUpdates = <<>>
    /\ viewEffectsPending = FALSE
    /\ lastInputs = InitialInputs
    /\ observer = [vc |-> 10, n |-> 0]
    /\ obsQueue = <<>>
    /\ curQueued = FALSE
    /\ derived = [done |-> FALSE, filtered |-> <<>>, sorted |-> <<>>]

Init == CartInit /\ ViewFrozen
Next == CartNext /\ UNCHANGED <<react19, viewVars>>
Spec == Init /\ [][Next]_vars


\* ------------------------------------------------------------------
\* View derivation pipeline. Product.justIn is optional: it is the JS value
\* "true", "false" or "undefined".

\* Variant that lower-cases the name but not the search term
filteredProductsCaseSensitiveTerm(prods, term, fj) ==
    SelectSeq(prods, LAMBDA p :
        /\ includes(toLowerCase(p.name), term)
        /\ IF fj = "" THEN TRUE
           ELSE IF fj = "justIn" THEN p.justIn = "true"
           ELSE p.justIn = "false")

\* filteredProducts (lines 123-132)
filteredProducts(prods, term, fj) ==
    SelectSeq(prods, LAMBDA p :
        /\ includes(toLowerCase(p.name), toLowerCase(term))
        /\ IF fj = "" THEN TRUE
           ELSE IF fj = "justIn" THEN p.justIn = "true"
           ELSE p.justIn = "false")

\* localeCompare (default ICU collation) on the alphabet used: letters compare
\* case-insensitively first (a < b); on a tie, lower case sorts before upper.
PrimaryWeight(c) == IF toLowerChar(c) = "a" THEN 1 ELSE 2
TertiaryWeight(c) == IF c \in {"A", "B"} THEN 1 ELSE 0

RECURSIVE LexCmp(_, _)
LexCmp(s, t) ==
    IF s = <<>> /\ t = <<>> THEN 0
    ELSE IF s = <<>> THEN -1
    ELSE IF t = <<>> THEN 1
    ELSE IF Head(s) < Head(t) THEN -1
    ELSE IF Head(s) > Head(t) THEN 1
    ELSE LexCmp(Tail(s), Tail(t))

localeCompare(x, y) ==
    LET prim == LexCmp([i \in DOMAIN x |-> PrimaryWeight(x[i])],
                       [i \in DOMAIN y |-> PrimaryWeight(y[i])])
    IN IF prim # 0 THEN prim
       ELSE LexCmp([i \in DOMAIN x |-> TertiaryWeight(x[i])],
                   [i \in DOMAIN y |-> TertiaryWeight(y[i])])

SortOptions == {"name-asc", "name-desc", "price-asc", "price-desc"}

\* The comparators passed to sorted.sort (lines 136-152)
sortComparator(opt, a, b) ==
    CASE opt = "name-asc"   -> localeCompare(a.name, b.name)
      [] opt = "name-desc"  -> localeCompare(b.name, a.name)
      [] opt = "price-asc"  -> priceNum(a.price) - priceNum(b.price)
      [] OTHER              -> priceNum(b.price) - priceNum(a.price)

\* Array.prototype.sort is stable: insert each element after every element
\* that does not compare greater than it.
RECURSIVE InsertSorted(_, _, _)
InsertSorted(opt, x, s) ==
    IF s = <<>> THEN <<x>>
    ELSE IF sortComparator(opt, s[Len(s)], x) <= 0 THEN Append(s, x)
    ELSE Append(InsertSorted(opt, x, SubSeq(s, 1, Len(s) - 1)), s[Len(s)])

RECURSIVE StableSort(_, _)
StableSort(opt, s) ==
    IF s = <<>> THEN <<>>
    ELSE InsertSorted(opt, s[Len(s)], StableSort(opt, SubSeq(s, 1, Len(s) - 1)))

\* sortedProducts (lines 134-154)
sortedProducts(filtered, opt) ==
    IF opt \in SortOptions THEN StableSort(opt, filtered) ELSE filtered

\* visibleProducts (lines 157-159)
visibleProducts(sorted, vc) == SubSeq(sorted, 1, IF vc < Len(sorted) THEN vc ELSE Len(sorted))

\* sortedProducts.length: sortedProducts is a sorted copy of filteredProducts
sortedLength(prods, term, fj) == Len(filteredProducts(prods, term, fj))

Min(a, b) == IF a < b THEN a ELSE b

\* ------------------------------------------------------------------
\* Incremental reveal

InitialVisibleCount == 10
RevealStep == 10
RevealCatalogSize == 13
MaxQueue == 1
MaxPending == 2
SearchTerms == {<<>>, <<"b">>}
JustInFilters == {"", "justIn", "notJustIn"}
RevealSortOptions == {"name-asc", "price-asc"}

\* Catalog returned by GET /api/products
RevealCatalog ==
    [i \in 1..RevealCatalogSize |->
        [_id |-> i,
         name |-> IF i % 3 = 0 THEN <<"b", "a">> ELSE <<"A">>,
         price |-> IF i % 2 = 0 THEN <<"1", "2">> ELSE <<"R", "s", " ", "7">>,
         justIn |-> IF i % 4 = 0 THEN "false" ELSE "true"]]

Inputs == <<products, searchTerm, sortOption, filterJustIn>>

\* Variant whose functional update drops the cap: (prev) => prev + 10
RECURSIVE ApplyVCUpdatesUncapped(_, _)
ApplyVCUpdatesUncapped(v, ups) ==
    IF ups = <<>> THEN v
    ELSE ApplyVCUpdatesUncapped(IF Head(ups).kind = "set" THEN Head(ups).n
                                ELSE v + RevealStep,
                                Tail(ups))

\* Queued visibleCount updates applied in order by a render:
\* setVisibleCount(10) and setVisibleCount((prev) => Math.min(prev + 10, n))
RECURSIVE ApplyVCUpdates(_, _)
ApplyVCUpdates(v, ups) ==
    IF ups = <<>> THEN v
    ELSE ApplyVCUpdates(IF Head(ups).kind = "set" THEN Head(ups).n
                        ELSE Min(v + RevealStep, Head(ups).n),
                        Tail(ups))

\* fetchProducts (lines 61-74): setProducts(data) on success, then
\* setProductsLoading(false); both are queued for the next render.
FetchProducts(ok) ==
    /\ productsLoading = TRUE
    /\ pendingProducts = NoPendingProducts
    /\ pendingProducts' = IF ok THEN [kind |-> "ok", data |-> RevealCatalog]
                          ELSE [kind |-> "fail", data |-> <<>>]
    /\ UNCHANGED <<products, productsLoading, searchTerm, sortOption, filterJustIn, visibleCount,
                   vcUpdates, viewEffectsPending, lastInputs, observer, obsQueue, curQueued, derived>>

\* React renders the queued updates (products, productsLoading, visibleCount);
\* pending passive effects are flushed before a render. A commit that changes
\* products or visibleCount leaves the effects depending on them to run.
CommitView ==
    LET newVC == ApplyVCUpdates(visibleCount, vcUpdates)
        loaded == pendingProducts.kind = "ok" IN
    /\ ~viewEffectsPending
    /\ pendingProducts.kind # "none" \/ vcUpdates # <<>>
    /\ products' = IF loaded THEN pendingProducts.data ELSE products
    /\ productsLoading' = IF pendingProducts.kind # "none" THEN FALSE ELSE productsLoading
    /\ pendingProducts' = NoPendingProducts
    /\ visibleCount' = newVC
    /\ vcUpdates' = <<>>
    /\ viewEffectsPending' = (loaded \/ newVC # visibleCount)
    /\ UNCHANGED <<searchTerm, sortOption, filterJustIn, lastInputs, observer, obsQueue,
                   curQueued, derived>>

\* onChange of the search input / sort select / filter select (lines 324-347):
\* a discrete event, rendered at once. On React 18 that render leaves the
\* updates queued outside the event (products, visibleCount) for later; on
\* React 19 it applies them in the same render.
InputSet(newTerm, newSort, newFilter) ==
    /\ ~viewEffectsPending
    /\ searchTerm' = newTerm
    /\ sortOption' = newSort
    /\ filterJustIn' = newFilter
    /\ viewEffectsPending' = TRUE
    /\ IF react19
       THEN /\ products' = IF pendingProducts.kind = "ok" THEN pendingProducts.data ELSE products
            /\ productsLoading' = IF pendingProducts.kind # "none" THEN FALSE ELSE productsLoading
            /\ pendingProducts' = NoPendingProducts
            /\ visibleCount' = ApplyVCUpdates(visibleCount, vcUpdates)
            /\ vcUpdates' = <<>>
       ELSE UNCHANGED <<products, productsLoading, pendingProducts, visibleCount, vcUpdates>>
    /\ UNCHANGED <<lastInputs, observer, obsQueue, curQueued, derived>>

SetSearchTerm(t) == t # searchTerm /\ InputSet(t, sortOption, filterJustIn)
SetSortOption(o) == o # sortOption /\ InputSet(searchTerm, o, filterJustIn)
SetFilterJustIn(f) == f # filterJustIn /\ InputSet(searchTerm, sortOption, f)

\* Variant without the reset effect
ViewEffectsNoReset ==
    LET changed == Inputs # lastInputs IN
    /\ viewEffectsPending
    /\ viewEffectsPending' = FALSE
    /\ lastInputs' = Inputs
    /\ UNCHANGED vcUpdates
    /\ IF changed \/ visibleCount # observer.vc
       THEN /\ observer' = [vc |-> visibleCount, n |-> sortedLength(products, searchTerm, filterJustIn)]
            /\ curQueued' = FALSE
       ELSE UNCHANGED <<observer, curQueued>>
    /\ UNCHANGED <<products, productsLoading, pendingProducts, searchTerm, sortOption, filterJustIn,
                   visibleCount, obsQueue, derived>>

\* Passive effects after a commit: the reset effect (lines 118-120) queues
\* setVisibleCount(10) when an input changed (a set supersedes the updates
\* queued before it); the IntersectionObserver effect (lines 162-179)
\* replaces the observer when visibleCount or sortedProducts changed. Entries
\* already queued for the old observer stay queued.
ViewEffects ==
    LET changed == Inputs # lastInputs IN
    /\ viewEffectsPending
    /\ viewEffectsPending' = FALSE
    /\ lastInputs' = Inputs
    /\ vcUpdates' = IF changed THEN <<[kind |-> "set", n |-> InitialVisibleCount]>> ELSE vcUpdates
    /\ IF changed \/ visibleCount # observer.vc
       THEN /\ observer' = [vc |-> visibleCount, n |-> sortedLength(products, searchTerm, filterJustIn)]
            /\ curQueued' = FALSE
       ELSE UNCHANGED <<observer, curQueued>>
    /\ UNCHANGED <<products, productsLoading, pendingProducts, searchTerm, sortOption, filterJustIn,
                   visibleCount, obsQueue, derived>>

\* The sentinel becomes fully visible: an entry is queued for the registered observer.
SentinelIntersects ==
    /\ ~curQueued
    /\ Len(obsQueue) < MaxQueue
    /\ obsQueue' = Append(obsQueue, observer)
    /\ curQueued' = TRUE
    /\ UNCHANGED <<products, productsLoading, pendingProducts, searchTerm, sortOption, filterJustIn,
                   visibleCount, vcUpdates, viewEffectsPending, lastInputs, observer, derived>>

\* The IntersectionObserver callback (lines 164-168) runs with the closure of
\* the observer the entry was queued for and queues the functional update.
ObserverCallback ==
    LET c == Head(obsQueue)
        isCurrent == curQueued /\ Len(obsQueue) = 1 IN
    /\ obsQueue # <<>>
    /\ Len(vcUpdates) < MaxPending
    /\ obsQueue' = Tail(obsQueue)
    /\ curQueued' = (curQueued /\ ~isCurrent)
    /\ vcUpdates' = IF c.vc < c.n THEN Append(vcUpdates, [kind |-> "inc", n |-> c.n]) ELSE vcUpdates
    /\ UNCHANGED <<products, productsLoading, pendingProducts, searchTerm, sortOption, filterJustIn,
                   visibleCount, viewEffectsPending, lastInputs, observer, derived>>

ViewInit ==
    /\ products = <<>>
    /\ productsLoading = TRUE
    /\ pendingProducts = NoPendingProducts
    /\ searchTerm = <<>>
    /\ sortOption = "name-asc"
    /\ filterJustIn = ""
    /\ visibleCount = InitialVisibleCount
    /\ vcUpdates = <<>>
    /\ viewEffectsPending = FALSE
    /\ lastInputs = InitialInputs
    /\ observer = [vc |-> InitialVisibleCount, n |-> 0]
    /\ obsQueue = <<>>
    /\ curQueued = FALSE
    /\ derived = [done |-> FALSE, filtered |-> <<>>, sorted |-> <<>>]

CartFrozen ==
    /\ user = NoUser
    /\ authLoading = TRUE
    /\ pendingUser = NoPending
    /\ userEffectPending = FALSE
    /\ cartItems = <<>>
    /\ cartCount = 0
    /\ pendingCart = NoPendingCart
    /\ server = [u \in Uids |-> <<>>]
    /\ fetches = <<>>
    /\ posts = <<>>
    /\ toasts = <<>>
    /\ route = <<>>
    /\ clicks = 0
    /\ authChanges = 0
    /\ cartOwner = NoUser
    /\ lastClick = "none"
    /\ react19 \in BOOLEAN

RevealInit == CartFrozen /\ ViewInit
RevealNext ==
    /\ \/ \E ok \in BOOLEAN : FetchProducts(ok)
       \/ CommitView
       \/ \E t \in SearchTerms : SetSearchTerm(t)
       \/ \E o \in RevealSortOptions : SetSortOption(o)
       \/ \E f \in JustInFilters : SetFilterJustIn(f)
       \/ ViewEffects
       \/ SentinelIntersects
       \/ ObserverCallback
    /\ UNCHANGED cartVars
RevealSpec == RevealInit /\ [][RevealNext]_vars


\* ------------------------------------------------------------------
\* The derivation pipeline applied to bounded inputs

MaxCatalog == 3
PipeProducts ==
    { [_id |-> "q1", name |-> <<"A", "b">>, price |-> <<"R", "s", " ", "5">>, justIn |-> "true"],
      [_id |-> "q2", name |-> <<"b", "a">>, price |-> <<"1", ",", "0">>, justIn |-> "false"],
      [_id |-> "q3", name |-> <<"a">>, price |-> <<"R", "s", "1", "0">>, justIn |-> "undefined"],
      [_id |-> "q4", name |-> <<"B">>, price |-> <<"0", "5">>, justIn |-> "true"] }
PipeTerms == {<<>>, <<"a">>, <<"B">>, <<"a", "B">>, <<"b", "A">>}

\* Catalogs with unique product ids
PipelineCatalogs ==
    { c \in UNION {[1..k -> PipeProducts] : k \in 0..MaxCatalog} :
        \A i, j \in DOMAIN c : i # j => c[i] # c[j] }

PipelineInit ==
    /\ CartFrozen
    /\ products \in PipelineCatalogs
    /\ productsLoading = FALSE
    /\ pendingProducts = NoPendingProducts
    /\ searchTerm \in PipeTerms
    /\ sortOption \in SortOptions
    /\ filterJustIn \in JustInFilters
    /\ visibleCount = InitialVisibleCount
    /\ vcUpdates = <<>>
    /\ viewEffectsPending = FALSE
    /\ lastInputs = Inputs
    /\ observer = [vc |-> InitialVisibleCount, n |-> 0]
    /\ obsQueue = <<>>
    /\ curQueued = FALSE
    /\ derived = [done |-> FALSE, filtered |-> <<>>, sorted |-> <<>>]

\* Render: the filteredProducts and sortedProducts memos (lines 123-154)
Derive ==
    /\ ~derived.done
    /\ LET f == filteredProducts(products, searchTerm, filterJustIn) IN
       derived' = [done |-> TRUE, filtered |-> f, sorted |-> sortedProducts(f, sortOption)]
    /\ UNCHANGED <<cartVars, products, productsLoading, pendingProducts, searchTerm, sortOption,
                   filterJustIn, visibleCount, vcUpdates, viewEffectsPending, lastInputs,
                   observer, obsQueue, curQueued>>

PipelineSpec == PipelineInit /\ [][Derive]_vars

\* ------------------------------------------------------------------
\* Properties of the cart store

\* Sum of quantities, computed left to right
RECURSIVE SumFrom(_, _)
SumFrom(items, k) == IF k > Len(items) THEN 0 ELSE items[k].quantity + SumFrom(items, k + 1)

DistinctIds ==
    \A i, j \in DOMAIN cartItems : i # j => cartItems[i].productId # cartItems[j].productId

AddedStep == clicks' = clicks + 1

\* before -> after adds product pid: either the one existing line of pid has
\* its quantity raised by one and every other line is unchanged, or a line
\* of pid with quantity 1 is appended to the unchanged lines.
MergedAdd(before, after, pid) ==
    IF \E i \in DOMAIN before : before[i].productId = pid
    THEN /\ DOMAIN after = DOMAIN before
         /\ \A i \in DOMAIN before :
               IF before[i].productId = pid
               THEN /\ after[i].productId = pid
                    /\ after[i].quantity = before[i].quantity + 1
               ELSE after[i] = before[i]
    ELSE /\ Len(after) = Len(before) + 1
         /\ SubSeq(after, 1, Len(before)) = before
         /\ after[Len(after)].productId = pid
         /\ after[Len(after)].quantity = 1

\* An authenticated add merges the clicked product into the local cart.
AddMerges == (AddedStep /\ user # NoUser) => MergedAdd(cartItems, cartItems', lastClick')

\* C1: starting from carts with distinct product ids, the local cart never
\* holds two lines with the same product id, and every authenticated add
\* increments the existing line of the clicked product by one or appends one
\* line of it with quantity 1.
C1_Merge == []DistinctIds /\ [][AddMerges]_vars

\* Witness of C1: the same product added twice to an empty cart: the first
\* POST carried one line of quantity 1, the cart now holds one line of quantity 2.
C1_Witness ==
    /\ clicks = 2
    /\ Len(posts) = 2
    /\ Len(posts[1].items) = 1
    /\ posts[1].items[1].quantity = 1
    /\ posts[2].items = cartItems
    /\ Len(cartItems) = 1
    /\ cartItems[1].productId = posts[1].items[1].productId
    /\ cartItems[1].quantity = 2

\* C2: an add with no signed-in user redirects to /signin, leaves the local
\* items and count unchanged and issues no POST.
C2_Redirect ==
    [][(AddedStep /\ user = NoUser) =>
          /\ route' = Append(route, "/signin")
          /\ cartItems' = cartItems
          /\ cartCount' = cartCount
          /\ posts' = posts]_vars

\* Witness of C2: a redirect happened while the local cart was non-empty.
C2_Witness == route # <<>> /\ cartItems # <<>>

\* C3: an authenticated add sets the local items to the merged update and the
\* count to their sum in the same step that dispatches the POST carrying
\* exactly those items and the user's id;
\* each POST that settles shows exactly one toast, success iff the response
\* was ok, and leaves the local cart as it is.
C3_Persist ==
    [][ /\ (AddedStep /\ user # NoUser) =>
              /\ MergedAdd(cartItems, cartItems', lastClick')
              /\ cartCount' = SumFrom(cartItems', 1)
              /\ posts' = Append(posts, [uid |-> user, items |-> cartItems', status |-> "pending"])
        /\ \A i \in DOMAIN posts :
              posts' = RemoveAt(posts, i) =>
                 /\ toasts' = Append(toasts, IF posts[i].status = "ok" THEN "success" ELSE "error")
                 /\ cartItems' = cartItems
                 /\ cartCount' = cartCount ]_vars

\* Witness of C3: a failed persist was reported while the optimistic cart stays.
C3_Witness == (\E i \in DOMAIN toasts : toasts[i] = "error") /\ cartCount > 0 /\ user # NoUser

\* C6: when the auth stream reports no user, the local items and count are
\* discarded.
C6_SignOutClears ==
    [][(user # NoUser /\ user' = NoUser) => (cartItems' = <<>> /\ cartCount' = 0)]_vars

\* C7: a cart fetch is dispatched only for a present identity, and once no
\* request is in flight the local cart is never the cart of another identity
\* than the signed-in one.
\* No request in flight and no update or effect pending
Settled ==
    /\ user # NoUser
    /\ fetches = <<>>
    /\ posts = <<>>
    /\ pendingUser = NoPending
    /\ ~userEffectPending
    /\ ~pendingCart.has

FetchOnlySignedIn == [][Len(fetches') > Len(fetches) => user' # NoUser]_vars
C7_CartOfCurrentUser ==
    /\ FetchOnlySignedIn
    /\ [](Settled => cartOwner \in {user, NoUser})

\* C8: the cart count always equals the sum of the item quantities.
C8_CountIsSum == cartCount = SumFrom(cartItems, 1)

\* Witness of C8: a fetched cart and an add combine.
C8_Witness == cartCount = 3 /\ Len(cartItems) = 2

\* ------------------------------------------------------------------
\* Properties of the reveal controller

ListLen == sortedLength(products, searchTerm, filterJustIn)
InputsChange == Inputs' # Inputs

CurrentOnly ==
    /\ \A i \in DOMAIN obsQueue : obsQueue[i].n = ListLen
    /\ \A j \in DOMAIN vcUpdates : vcUpdates[j].kind = "inc" => vcUpdates[j].n = ListLen

ResetPending == \E i \in DOMAIN vcUpdates : vcUpdates[i].kind = "set"

\* An input or the catalog changed and its reset has not been applied yet
ResetDue == Inputs # lastInputs \/ ResetPending

\* Number of reveal requests queued
PendingReveals == Len(SelectSeq(vcUpdates, LAMBDA u : u.kind = "inc"))

SameLetterIgnoringCase(a, b) == a = b \/ {a, b} = {"a", "A"} \/ {a, b} = {"b", "B"}
ContainsIgnoringCase(s, t) ==
    \E k \in 0..(Len(s) - Len(t)) : \A i \in 1..Len(t) : SameLetterIgnoringCase(s[k + i], t[i])
MatchesRecent(p, mode) ==
    CASE mode = "" -> TRUE
      [] mode = "justIn" -> p.justIn = "true"
      [] OTHER -> p.justIn = "false"

\* C9: the filter keeps exactly the products whose name contains the term
\* ignoring case and whose recent flag matches the mode, and is idempotent.
C9_Filter ==
    derived.done =>
        /\ derived.filtered = SelectSeq(products, LAMBDA p :
                ContainsIgnoringCase(p.name, searchTerm) /\ MatchesRecent(p, filterJustIn))
        /\ filteredProducts(derived.filtered, searchTerm, filterJustIn) = derived.filtered

\* Witness of C9: an upper-case term matched a lower-case name under a recent filter.
C9_Witness ==
    /\ derived.done
    /\ searchTerm = <<"B">>
    /\ filterJustIn = "notJustIn"
    /\ Len(products) = 3
    /\ derived.filtered # <<>>

\* Integer formed by the digit characters of a price string
RECURSIVE DigitsValue(_, _)
DigitsValue(d, k) == IF k = 0 THEN 0 ELSE DigitsValue(d, k - 1) + DigitVal[d[k]] * 10^(Len(d) - k)
ParsedPrice(p) == LET d == SelectSeq(p.price, LAMBDA c : c \in Digits) IN DigitsValue(d, Len(d))

PosIn(s, p) == CHOOSE i \in DOMAIN s : s[i] = p

\* C10: price sorts order the filtered products by the digit value of the
\* price (ascending / descending), keeping the input order on equal values.
C10_PriceSort ==
    (derived.done /\ sortOption \in {"price-asc", "price-desc"}) =>
        LET in == derived.filtered
            out == derived.sorted IN
        /\ Len(out) = Len(in)
        /\ {out[i] : i \in DOMAIN out} = {in[i] : i \in DOMAIN in}
        /\ \A i, j \in DOMAIN out : i < j =>
              /\ IF sortOption = "price-asc"
                 THEN ParsedPrice(out[i]) <= ParsedPrice(out[j])
                 ELSE ParsedPrice(out[i]) >= ParsedPrice(out[j])
              /\ ParsedPrice(out[i]) = ParsedPrice(out[j]) => PosIn(in, out[i]) < PosIn(in, out[j])

\* Witness of C10: a descending price sort of three products with a price tie.
C10_Witness ==
    /\ derived.done
    /\ sortOption = "price-desc"
    /\ Len(derived.sorted) = 3
    /\ \E i, j \in 1..3 : i < j /\ ParsedPrice(derived.sorted[i]) = ParsedPrice(derived.sorted[j])

====
